---- MODULE Spec2Model ----
(***************************************************************************)
(* Model of swapiview: the OpenAPI document model (src/openapi.py) and the *)
(* API-view token / navigation serializer (src/apiserializer.py).          *)
(*                                                                         *)
(* JSON values.  A JSON object (a Python dict, which keeps insertion       *)
(* order) is a sequence of entries [k |-> key, v |-> value]; a JSON list   *)
(* is a sequence of values; a JSON string is a string.                     *)
(*                                                                         *)
(* JSON pointers.  A pointer string is modelled by the list of its         *)
(* "/"-separated parts ("./#/definitions/A" is <<".", "#", "definitions",  *)
(* "A">>), so str.split("/") is the identity on the list, two pointer      *)
(* strings are equal exactly when their lists are equal, and "#/" occurs   *)
(* where a part that is not the last one ends in "#".                      *)
(*                                                                         *)
(* Exceptions.  An operation that can raise returns a record with a field  *)
(* raised; when raised is TRUE the field error names the exception, else   *)
(* the field value holds the result.                                       *)
(***************************************************************************)
EXTENDS Integers, Sequences, FiniteSets, TLC

VARIABLES
    pc,          \* position of the caller: which call has been made
    rootjson,    \* content of the JSON file at Document.file_path
    arg,         \* argument of the call (a JSON fragment)
    resolved,    \* result of _OpenApiElement.resolve / Document.resolve_fragment
    operation,   \* result of Operation(...)
    paramtokens, \* result of ApiViewTokenEncoder.serialize_operation_parameters
    document,    \* result of Document(file_path)
    views,       \* the four classification properties as read from the Document
    envelope     \* result of ApiViewEncoder.default(document)

vars == <<pc, rootjson, arg, resolved, operation, paramtokens, document, views, envelope>>

None == "None"

Ok(val) == [raised |-> FALSE, value |-> val]

Raise(err) == [raised |-> TRUE, error |-> err]

(***************************************************************************)
(* Python dict operations on ordered JSON objects.                         *)
(***************************************************************************)
KV(key, val) == [k |-> key, v |-> val]

Keys(d) == {d[i].k : i \in DOMAIN d}

Has(d, key) == \E i \in DOMAIN d : d[i].k = key

Get(d, key) == d[CHOOSE i \in DOMAIN d : d[i].k = key].v

GetOr(d, key, default) == IF Has(d, key) THEN Get(d, key) ELSE default

Pop(d, key) == SelectSeq(d, LAMBDA e : e.k # key)

\* a.update(b): a key of b replaces the value in place, a new key is appended.
Update(a, b) ==
    [i \in DOMAIN a |-> IF Has(b, a[i].k) THEN KV(a[i].k, Get(b, a[i].k)) ELSE a[i]]
        \o SelectSeq(b, LAMBDA e : ~Has(a, e.k))

Last(s) == s[Len(s)]

(***************************************************************************)
(* Document.load_fragment                                                  *)
(***************************************************************************)
\* The pointer parts that end in "#", with what precedes the "#".
HashParts ==
    ("#" :> "") @@ (".#" :> ".") @@ ("other.json#" :> "other.json")
        @@ ("common.json#" :> "common.json") @@ ("api.json#" :> "api.json")
        @@ ("A#" :> "A")

RECURSIVE JoinSlash(_)
JoinSlash(parts) ==
    IF Len(parts) = 1 THEN parts[1] ELSE parts[1] \o "/" \o JoinSlash(Tail(parts))

\* Positions of "#/" in the pointer string.
HashPositions(ptr) == {i \in 1..(Len(ptr) - 1) : ptr[i] \in DOMAIN HashParts}

\* The text before the "#/" at part i.
FilePathJsonPointer(ptr, i) ==
    JoinSlash(SubSeq(ptr, 1, i - 1) \o <<HashParts[ptr[i]]>>)

RECURSIVE Descend(_, _)
Descend(node, parts) ==
    IF Len(parts) = 0 THEN Ok(node)
    ELSE IF Head(parts) = "" THEN Descend(node, Tail(parts))
    ELSE IF Has(node, Head(parts)) THEN Descend(Get(node, Head(parts)), Tail(parts))
    ELSE Raise("KeyError")

\* A second JSON file, next to the Document's own file.
CommonDocument == <<KV("definitions", <<KV("X", <<KV("type", "object")>>)>>)>>

\* The JSON files on disk: the Document's own file and the second file.
Disk(root) == ("/specs/api.json" :> root) @@ ("/specs/common.json" :> CommonDocument)

\* os.path.isabs of the file parts the model uses.
IsAbs(filepathjsonpointer) ==
    filepathjsonpointer \in {"/specs/common.json", "/specs/api.json", "/elsewhere/other.json"}

\* os.path.join(os.path.dirname(self.file_path), filepathjsonpointer)
JoinDirname(filepathjsonpointer) == "/specs/" \o filepathjsonpointer

\* open(file_path) and json.load, then the descent through the path part.
LoadFile(root, file_path, parts) ==
    IF file_path \in DOMAIN Disk(root) THEN Descend(Disk(root)[file_path], parts)
    ELSE Raise("FileNotFoundError")

LoadSplit(root, ptr, i) ==
    IF FilePathJsonPointer(ptr, i) \in {".", "", "./"}
    THEN LoadFile(root, "/specs/api.json", SubSeq(ptr, i + 1, Len(ptr)))
    ELSE IF IsAbs(FilePathJsonPointer(ptr, i))
         THEN LoadFile(root, FilePathJsonPointer(ptr, i), SubSeq(ptr, i + 1, Len(ptr)))
         ELSE LoadFile(root, JoinDirname(FilePathJsonPointer(ptr, i)),
                       SubSeq(ptr, i + 1, Len(ptr)))

LoadFragment(root, ptr) ==
    IF Cardinality(HashPositions(ptr)) # 1 THEN Raise("ValueError")
    ELSE LoadSplit(root, ptr, CHOOSE j \in HashPositions(ptr) : TRUE)

(***************************************************************************)
(* _OpenApiElement.resolve and Document.resolve_fragment                   *)
(***************************************************************************)
\* resolved.update(target), a KeyError of the load being swallowed.
ResolveWith(jsonfragment, target) ==
    IF target.raised
    THEN IF target.error = "KeyError" THEN Ok(Pop(jsonfragment, "$ref")) ELSE target
    ELSE Ok(Update(Pop(jsonfragment, "$ref"), target.value))

Resolve(root, jsonfragment) ==
    IF ~Has(jsonfragment, "$ref") THEN Ok(jsonfragment)
    ELSE ResolveWith(jsonfragment, LoadFragment(root, Get(jsonfragment, "$ref")))

ResolveFragmentWith(fragment, target) ==
    IF target.raised THEN target ELSE Ok(Update(fragment, target.value))

ResolveFragment(root, fragment) ==
    IF ~Has(fragment, "$ref") THEN Ok(fragment)
    ELSE ResolveFragmentWith(fragment, LoadFragment(root, Get(fragment, "$ref")))

(***************************************************************************)
(* Results of list comprehensions whose elements may raise.                *)
(***************************************************************************)
AnyRaised(results) == \E i \in DOMAIN results : results[i].raised

FirstRaised(results) ==
    results[CHOOSE i \in DOMAIN results :
                results[i].raised /\ \A j \in 1..(i - 1) : ~results[j].raised]

Values(results) == [i \in DOMAIN results |-> results[i].value]

Collect(results) ==
    IF AnyRaised(results) THEN FirstRaised(results) ELSE Ok(Values(results))

\* The elements of seq at the positions in keep, from position i on, in order.
RECURSIVE Pick(_, _, _)
Pick(seq, keep, i) ==
    IF i > Len(seq) THEN <<>>
    ELSE (IF i \in keep THEN <<seq[i]>> ELSE <<>>) \o Pick(seq, keep, i + 1)

(***************************************************************************)
(* Schema, BodyParameter, Response, VoidResponse, QueryHeaderParameter     *)
(***************************************************************************)
ElementFrom(jsonpointer, jsonfragment, r) ==
    IF r.raised THEN r
    ELSE Ok([jsonpointer |-> jsonpointer,
             raw_jsonfragment |-> jsonfragment,
             jsonfragment |-> r.value])

\* _OpenApiElement.__init__
MakeElement(root, jsonpointer, jsonfragment) ==
    ElementFrom(jsonpointer, jsonfragment, Resolve(root, jsonfragment))

\* Schema.__init__: a $ref schema takes the $ref as its pointer.
MakeSchema(root, jsonpointer, jsonfragment) ==
    MakeElement(root,
                IF Has(jsonfragment, "$ref") THEN Get(jsonfragment, "$ref")
                ELSE jsonpointer,
                jsonfragment)

SchemaTypename(schema) ==
    IF Has(schema.raw_jsonfragment, "$ref")
    THEN Last(Get(schema.raw_jsonfragment, "$ref"))
    ELSE IF /\ Has(schema.raw_jsonfragment, "type")
            /\ Get(schema.raw_jsonfragment, "type") = "array"
            /\ Has(schema.raw_jsonfragment, "items")
         THEN "[" \o Last(Get(Get(schema.raw_jsonfragment, "items"), "$ref")) \o "]"
         ELSE "?"

BodyParameterWithSchema(element, s) ==
    IF s.raised THEN s
    ELSE Ok([jsonpointer |-> element.jsonpointer,
             raw_jsonfragment |-> element.raw_jsonfragment,
             jsonfragment |-> element.jsonfragment,
             schema |-> s.value])

BodyParameterFrom(root, e) ==
    IF e.raised THEN e
    ELSE IF ~Has(e.value.jsonfragment, "schema") THEN Raise("KeyError")
    ELSE BodyParameterWithSchema(
             e.value,
             MakeSchema(root, Append(e.value.jsonpointer, "schema"),
                        Get(e.value.jsonfragment, "schema")))

\* BodyParameter.__init__
MakeBodyParameter(root, jsonpointer, jsonfragment) ==
    BodyParameterFrom(root, MakeElement(root, jsonpointer, jsonfragment))

BodyParameterTypename(body) == SchemaTypename(body.schema)

\* Response.schema is a sequence: empty for None, else the one Schema.
ResponseObject(element, schema) ==
    [class |-> "Response",
     jsonpointer |-> element.jsonpointer,
     raw_jsonfragment |-> element.raw_jsonfragment,
     jsonfragment |-> element.jsonfragment,
     schema |-> schema]

ResponseWithSchema(element, s) ==
    IF s.raised THEN s ELSE Ok(ResponseObject(element, <<s.value>>))

ResponseFrom(root, e) ==
    IF e.raised THEN e
    ELSE IF ~Has(e.value.jsonfragment, "schema") THEN Ok(ResponseObject(e.value, <<>>))
    ELSE ResponseWithSchema(
             e.value,
             MakeSchema(root, Append(e.value.jsonpointer, "schema"),
                        Get(e.value.jsonfragment, "schema")))

\* Response.__init__
MakeResponse(root, jsonpointer, jsonfragment) ==
    ResponseFrom(root, MakeElement(root, jsonpointer, jsonfragment))

VoidResponse == [class |-> "VoidResponse"]

\* typename of a Response or of the VoidResponse sentinel.
ResponseTypename(response) ==
    IF response.class = "VoidResponse" THEN "void"
    ELSE IF Len(response.schema) > 0 THEN SchemaTypename(response.schema[1])
    ELSE "void"

\* int() of the response keys the model uses; other keys are not integers.
StatusCodes ==
    ("199" :> 199) @@ ("200" :> 200) @@ ("204" :> 204) @@ ("299" :> 299)
        @@ ("300" :> 300) @@ ("404" :> 404)

HttpStatusCode(response) == StatusCodes[Last(response.jsonpointer)]

\* The 2xx test with the upper end included.
IsSuccessResponseInclusive(response) ==
    HttpStatusCode(response) >= 200 /\ HttpStatusCode(response) <= 300

IsSuccessResponse(response) ==
    HttpStatusCode(response) >= 200 /\ HttpStatusCode(response) < 300

ParameterName(parameter) == Get(parameter.jsonfragment, "name")

(***************************************************************************)
(* Operation.__init__                                                      *)
(***************************************************************************)
AppendText(jsonpointer, suffix) ==
    [jsonpointer EXCEPT ![Len(jsonpointer)] = @ \o suffix]

Upper(verb) ==
    CASE verb = "get" -> "GET"
      [] verb = "post" -> "POST"
      [] verb = "put" -> "PUT"
      [] verb = "delete" -> "DELETE"
      [] verb = "parameters" -> "PARAMETERS"
      [] verb = "summary" -> "SUMMARY"
      [] verb = "x-ms-note" -> "X-MS-NOTE"
      [] OTHER -> verb

FilterByIn(parameters, resolutions, location) ==
    IF AnyRaised(resolutions) THEN FirstRaised(resolutions)
    ELSE Ok(Pick(parameters,
                 {i \in DOMAIN parameters :
                      GetOr(resolutions[i].value, "in", "") = location},
                 1))

\* The parameter fragments that resolve to the given "in", in declaration order.
ParametersIn(root, parameters, location) ==
    FilterByIn(parameters,
               [i \in DOMAIN parameters |-> ResolveFragment(root, parameters[i])],
               location)

\* Taking the last candidate body parameter instead of the first.
BodyCandidateLast(candidates) == candidates[Len(candidates)]

\* next(enumerate(candidates)): the first candidate (its index is 0).
BodyCandidate(candidates) == candidates[1]

OptionOf(r) == IF r.raised THEN r ELSE Ok(<<r.value>>)

BodyFrom(root, jsonpointer, candidates) ==
    IF candidates.raised THEN candidates
    ELSE IF Len(candidates.value) = 0 THEN Ok(<<>>)
    ELSE OptionOf(MakeBodyParameter(root, AppendText(jsonpointer, "[0]"),
                                    BodyCandidate(candidates.value)))

\* body_parameter as a sequence: empty for None, else the one BodyParameter.
BodyParameterOf(root, jsonpointer, parameters) ==
    BodyFrom(root, jsonpointer, ParametersIn(root, parameters, "body"))

GroupFrom(root, fragments) ==
    IF fragments.raised THEN fragments
    ELSE Collect([i \in DOMAIN fragments.value |->
                      MakeElement(root, <<"unknown">>, fragments.value[i])])

\* query_parameters, header_parameters or path_parameters.
ParameterGroup(root, parameters, location) ==
    GroupFrom(root, ParametersIn(root, parameters, location))

CheckStatusCodes(built) ==
    IF built.raised THEN built
    ELSE IF \E i \in DOMAIN built.value :
                Last(built.value[i].jsonpointer) \notin DOMAIN StatusCodes
         THEN Raise("ValueError")
         ELSE built

\* responses kept: key not "default" and no "x-ms-error-response" key once resolved.
KeptResponses(responses, marks) ==
    Pick(responses,
         {i \in DOMAIN responses :
              /\ responses[i].k # "default"
              /\ ~Has(marks[i].value, "x-ms-error-response")},
         1)

BuildResponses(root, jsonpointer, entries) ==
    CheckStatusCodes(
        Collect([i \in DOMAIN entries |->
                     MakeResponse(root, Append(jsonpointer, entries[i].k), entries[i].v)]))

ReturnValuesFrom(root, jsonpointer, responses, marks) ==
    IF \E i \in DOMAIN responses : responses[i].k # "default" /\ marks[i].raised
    THEN Raise("KeyError")
    ELSE BuildResponses(root, jsonpointer, KeptResponses(responses, marks))

\* return_values
ReturnValues(root, jsonpointer, responses) ==
    ReturnValuesFrom(root, jsonpointer, responses,
                     [i \in DOMAIN responses |-> ResolveFragment(root, responses[i].v)])

DistinctNonVoidTypenames(responses) ==
    {ResponseTypename(responses[i]) : i \in DOMAIN responses} \ {"void"}

OperationName(jsonfragment) == GetOr(jsonfragment, "operationId", "<Unknown>")

\* return_value: the first success response, else the void sentinel.
ReturnValueOf(success_responses) ==
    IF Len(success_responses) > 0 THEN success_responses[1] ELSE VoidResponse

MultipleTypesWarning(responses, message) ==
    IF Cardinality(DistinctNonVoidTypenames(responses)) > 1 THEN <<message>> ELSE <<>>

OperationObject(self, verb, body, query, header, path, success_responses, exceptions) ==
    [jsonpointer |-> self.jsonpointer,
     raw_jsonfragment |-> self.raw_jsonfragment,
     jsonfragment |-> self.jsonfragment,
     verb |-> Upper(verb),
     name |-> OperationName(self.jsonfragment),
     body_parameter |-> body,
     query_parameters |-> query,
     header_parameters |-> header,
     path_parameters |-> path,
     return_value |-> ReturnValueOf(success_responses),
     exceptions |-> exceptions,
     warnings |->
         MultipleTypesWarning(success_responses, "Multiple return types for operation")
             \o MultipleTypesWarning(exceptions, "Multiple exception types for operation")]

OperationParts(self, verb, body, query, header, path, return_values) ==
    IF body.raised THEN body
    ELSE IF query.raised THEN query
    ELSE IF header.raised THEN header
    ELSE IF path.raised THEN path
    ELSE IF return_values.raised THEN return_values
    ELSE Ok(OperationObject(self, verb, body.value, query.value, header.value,
                            path.value,
                            SelectSeq(return_values.value, IsSuccessResponse),
                            SelectSeq(return_values.value,
                                      LAMBDA r : ~IsSuccessResponse(r))))

OperationFrom(root, verb, self, parameters) ==
    OperationParts(self, verb,
                   BodyParameterOf(root, self.jsonpointer, parameters),
                   ParameterGroup(root, parameters, "query"),
                   ParameterGroup(root, parameters, "header"),
                   ParameterGroup(root, parameters, "path"),
                   ReturnValues(root, self.jsonpointer,
                                GetOr(self.jsonfragment, "responses", <<>>)))

OperationOf(root, verb, self) ==
    IF self.raised THEN self
    ELSE OperationFrom(root, verb, self.value,
                       GetOr(self.value.jsonfragment, "parameters", <<>>))

\* Operation.__init__
MakeOperation(root, jsonpointer, verb, jsonfragment) ==
    OperationOf(root, verb, MakeElement(root, jsonpointer, jsonfragment))

(***************************************************************************)
(* ModelProperty.__init__ and type_information                             *)
(***************************************************************************)
\* Without a $ref, resolve_fragment returns the fragment itself.
TypeInformation(raw_jsonfragment) ==
    IF Has(raw_jsonfragment, "$ref") THEN Last(Get(raw_jsonfragment, "$ref"))
    ELSE IF Has(raw_jsonfragment, "type") THEN Get(raw_jsonfragment, "type")
    ELSE "huh?"

ScalarTypenames == {"string", "boolean", "number", "object"}

TypeType(name) == IF name \in ScalarTypenames THEN "scalar" ELSE "model"

\* itemtypename; None when the property is not an array.
ItemTypename(element) ==
    IF TypeInformation(element.raw_jsonfragment) = "array"
    THEN TypeInformation(Get(element.jsonfragment, "items"))
    ELSE None

ModelPropertyObject(element, name, children) ==
    IF children.raised THEN children
    ELSE Ok([jsonpointer |-> element.jsonpointer,
             raw_jsonfragment |-> element.raw_jsonfragment,
             jsonfragment |-> element.jsonfragment,
             name |-> name,
             typename |-> TypeInformation(element.raw_jsonfragment),
             itemtypename |-> ItemTypename(element),
             typetype |-> TypeType(TypeInformation(element.raw_jsonfragment)),
             properties |-> children.value])

RECURSIVE MakeModelProperty(_, _, _, _)

NestedProperties(root, jsonpointer, entries) ==
    Collect([i \in DOMAIN entries |->
                 MakeModelProperty(root, jsonpointer \o <<"properties", entries[i].k>>,
                                   entries[i].k, entries[i].v)])

ModelPropertyFrom(root, name, e) ==
    IF e.raised THEN e
    ELSE IF /\ TypeInformation(e.value.raw_jsonfragment) = "array"
            /\ ~Has(e.value.jsonfragment, "items")
         THEN Raise("KeyError")
         ELSE ModelPropertyObject(
                  e.value, name,
                  NestedProperties(root, e.value.jsonpointer,
                                   GetOr(e.value.raw_jsonfragment, "properties", <<>>)))

MakeModelProperty(root, jsonpointer, name, jsonfragment) ==
    ModelPropertyFrom(root, name, MakeElement(root, jsonpointer, jsonfragment))

(***************************************************************************)
(* Definition.__init__                                                     *)
(***************************************************************************)
\* self.jsonfragment.update(inline) for every allOf entry that is not a $ref, in order.
RECURSIVE MergeInlines(_, _)
MergeInlines(jsonfragment, allof) ==
    IF Len(allof) = 0 THEN jsonfragment
    ELSE IF Has(Head(allof), "$ref") THEN MergeInlines(jsonfragment, Tail(allof))
    ELSE MergeInlines(Update(jsonfragment, Head(allof)), Tail(allof))

InlineWarnings(allof) ==
    [i \in DOMAIN SelectSeq(allof, LAMBDA b : ~Has(b, "$ref")) |->
         "Inline \"allOf\" definition for model"]

\* jsonpointer + "/properties" + name
DefinitionProperties(root, jsonpointer, entries) ==
    Collect([i \in DOMAIN entries |->
                 MakeModelProperty(root, Append(jsonpointer, "properties" \o entries[i].k),
                                   entries[i].k, entries[i].v)])

DefinitionObject(element, name, allof, bases, properties) ==
    IF bases.raised THEN bases
    ELSE IF properties.raised THEN properties
    ELSE Ok([jsonpointer |-> element.jsonpointer,
             raw_jsonfragment |-> element.raw_jsonfragment,
             jsonfragment |-> MergeInlines(element.jsonfragment, allof),
             typename |-> name,
             bases |-> bases.value,
             properties |-> properties.value,
             warnings |-> InlineWarnings(allof)])

RECURSIVE MakeDefinition(_, _, _, _)

BaseFrom(root, base, r) ==
    IF r.raised THEN r
    ELSE MakeDefinition(root, Get(base, "$ref"), Last(Get(base, "$ref")), r.value)

\* One base Definition per allOf entry that is a $ref, built from the resolved entry.
Bases(root, refs) ==
    Collect([i \in DOMAIN refs |-> BaseFrom(root, refs[i], Resolve(root, refs[i]))])

DefinitionFrom(root, name, allof, e) ==
    IF e.raised THEN e
    ELSE DefinitionObject(
             e.value, name, allof,
             Bases(root, SelectSeq(allof, LAMBDA b : Has(b, "$ref"))),
             DefinitionProperties(
                 root, e.value.jsonpointer,
                 GetOr(MergeInlines(e.value.jsonfragment, allof), "properties", <<>>)))

MakeDefinition(root, jsonpointer, name, jsonfragment) ==
    DefinitionFrom(root, name, GetOr(jsonfragment, "allOf", <<>>),
                   MakeElement(root, jsonpointer, jsonfragment))

(***************************************************************************)
(* Path.__init__ and Document.__init__                                     *)
(***************************************************************************)
PathObject(element, name, operations) ==
    IF operations.raised THEN operations
    ELSE Ok([jsonpointer |-> element.jsonpointer,
             raw_jsonfragment |-> element.raw_jsonfragment,
             jsonfragment |-> element.jsonfragment,
             name |-> name,
             operations |-> operations.value])

\* The Python type of an entry's value: an entry whose value is not a JSON
\* object carries the type in its field t.
ValueType(entry) == IF "t" \in DOMAIN entry THEN entry.t ELSE "dict"

\* _OpenApiElement.resolve of a value that is not a dict: list.pop("$ref")
\* raises TypeError, and a str has no copy().
ResolveNonDict(type) ==
    IF type = "list" THEN Raise("TypeError") ELSE Raise("AttributeError")

\* Operation(document, jsonpointer + "/" + verb, verb, fragment) for one item
\* of the path's fragment, whatever its key.
OperationOfEntry(root, jsonpointer, entry) ==
    IF ValueType(entry) = "dict"
    THEN MakeOperation(root, Append(jsonpointer, entry.k), entry.k, entry.v)
    ELSE ResolveNonDict(ValueType(entry))

PathOperations(root, jsonpointer, entries) ==
    Collect([i \in DOMAIN entries |-> OperationOfEntry(root, jsonpointer, entries[i])])

PathFrom(root, name, e) ==
    IF e.raised THEN e
    ELSE PathObject(e.value, name,
                    PathOperations(root, e.value.jsonpointer, e.value.jsonfragment))

MakePath(root, jsonpointer, name, jsonfragment) ==
    PathFrom(root, name, MakeElement(root, jsonpointer, jsonfragment))

\* Python's order of the path names the model uses.
NameRank == ("/pets" :> 1) @@ ("/users" :> 2) @@ ("/widgets" :> 3)

RECURSIVE InsertByName(_, _)
InsertByName(sorted, path) ==
    IF Len(sorted) = 0 THEN <<path>>
    ELSE IF NameRank[path.name] < NameRank[Head(sorted).name]
         THEN <<path>> \o sorted
         ELSE <<Head(sorted)>> \o InsertByName(Tail(sorted), path)

\* The paths kept in declaration order.
SortedByNameUnsorted(paths) == paths

\* sorted(paths, key=lambda p: p.name)
RECURSIVE SortedByName(_)
SortedByName(paths) ==
    IF Len(paths) = 0 THEN <<>>
    ELSE InsertByName(SortedByName(SubSeq(paths, 1, Len(paths) - 1)), Last(paths))

\* os.path.abspath(file_path)
FilePath == "/specs/api.json"

DocumentObject(jsonfragment, paths, definitions) ==
    IF paths.raised THEN paths
    ELSE IF definitions.raised THEN definitions
    ELSE Ok([file_path |-> FilePath,
             jsonfragment |-> jsonfragment,
             paths |-> SortedByName(paths.value),
             definitions |-> definitions.value])

DocumentPaths(root, entries) ==
    Collect([i \in DOMAIN entries |->
                 MakePath(root, <<"#", "paths", entries[i].k>>, entries[i].k,
                          entries[i].v)])

DocumentDefinitions(root, entries) ==
    Collect([i \in DOMAIN entries |->
                 MakeDefinition(root, <<"#", "definitions", entries[i].k>>,
                                entries[i].k, entries[i].v)])

DocumentFrom(root, jsonfragment) ==
    IF jsonfragment.raised THEN jsonfragment
    ELSE DocumentObject(jsonfragment.value,
                        DocumentPaths(root, GetOr(jsonfragment.value, "paths", <<>>)),
                        DocumentDefinitions(root,
                                            GetOr(jsonfragment.value, "definitions", <<>>)))

\* Document.__init__: the root fragment is load_fragment("#/").
MakeDocument(root) == DocumentFrom(root, LoadFragment(root, <<"#", "">>))

(***************************************************************************)
(* Document._extract_references and the four classification properties     *)
(***************************************************************************)
RECURSIVE Concat(_)
Concat(seqs) == IF Len(seqs) = 0 THEN <<>> ELSE Head(seqs) \o Concat(Tail(seqs))

AllOperations(doc) == Concat([i \in DOMAIN doc.paths |-> doc.paths[i].operations])

Reference(direction, jsonpointer) == [direction |-> direction, jsonpointer |-> jsonpointer]

OutReference(return_value) ==
    IF Len(return_value.schema) > 0
    THEN Reference("out", return_value.schema[1].jsonpointer)
    ELSE Reference("out", return_value.jsonpointer)

InReferences(body_parameter) ==
    IF Len(body_parameter) = 0 THEN {}
    ELSE {Reference("in", body_parameter[1].schema.jsonpointer)}

\* The references of one operation; VoidResponse has no attribute "schema".
OperationReferences(op) ==
    IF "schema" \notin DOMAIN op.return_value THEN Raise("AttributeError")
    ELSE Ok({OutReference(op.return_value)} \cup InReferences(op.body_parameter))

ReferencesFrom(results) ==
    IF AnyRaised(results) THEN FirstRaised(results)
    ELSE Ok(UNION {results[i].value : i \in DOMAIN results})

OperationsReferences(operations) ==
    ReferencesFrom([i \in DOMAIN operations |-> OperationReferences(operations[i])])

ExtractReferences(doc) == OperationsReferences(AllOperations(doc))

Pointers(references, directions) ==
    {r.jsonpointer : r \in {x \in references : x.direction \in directions}}

DefinitionsIn(doc, jsonpointers) ==
    SelectSeq(doc.definitions, LAMBDA d : d.jsonpointer \in jsonpointers)

DefinitionsNotIn(doc, jsonpointers) ==
    SelectSeq(doc.definitions, LAMBDA d : d.jsonpointer \notin jsonpointers)

InputDefinitionsFrom(doc, references) ==
    IF references.raised THEN references
    ELSE Ok(DefinitionsIn(doc, Pointers(references.value, {"in"})))

OutputDefinitionsFrom(doc, references) ==
    IF references.raised THEN references
    ELSE Ok(DefinitionsIn(doc, Pointers(references.value, {"out"})))

SupportDefinitionsFrom(doc, references) ==
    IF references.raised THEN references
    ELSE Ok(DefinitionsNotIn(doc, Pointers(references.value, {"in", "out"})))

ResourceDefinitionsFrom(doc, references) ==
    IF references.raised THEN references
    ELSE Ok(DefinitionsIn(doc, Pointers(references.value, {"in", "out"})))

InputDefinitions(doc) == InputDefinitionsFrom(doc, ExtractReferences(doc))

OutputDefinitions(doc) == OutputDefinitionsFrom(doc, ExtractReferences(doc))

SupportDefinitions(doc) == SupportDefinitionsFrom(doc, ExtractReferences(doc))

ResourceDefinitions(doc) == ResourceDefinitionsFrom(doc, ExtractReferences(doc))

\* What a caller gets reading the reference set and the four properties in turn.
ViewsFrom(references, inputs, outputs, support, resource) ==
    IF references.raised THEN references
    ELSE IF inputs.raised THEN inputs
    ELSE IF outputs.raised THEN outputs
    ELSE IF support.raised THEN support
    ELSE IF resource.raised THEN resource
    ELSE Ok([references |-> references.value,
             inputdefinitions |-> inputs.value,
             outputdefinitions |-> outputs.value,
             supportdefinitions |-> support.value,
             resourcedefinitions |-> resource.value])

ClassificationViews(doc) ==
    ViewsFrom(ExtractReferences(doc), InputDefinitions(doc), OutputDefinitions(doc),
              SupportDefinitions(doc), ResourceDefinitions(doc))

(***************************************************************************)
(* Token constructors (apiserializer.py)                                   *)
(***************************************************************************)
\* JSON null in a token or navigation field.
Null == "<null>"

KindText == 0

KindNewline == 1

KindWhitespace == 2

KindPunctuation == 3

KindKeyword == 4

KindTypename == 6

KindMember == 7

Token(definition_id, navigate_to_id, val, kind) ==
    [DefinitionId |-> definition_id, NavigateToId |-> navigate_to_id,
     Value |-> val, Kind |-> kind]

RECURSIVE Spaces(_)
Spaces(n) == IF n = 0 THEN "" ELSE " " \o Spaces(n - 1)

text(val, definition_id) == <<Token(definition_id, Null, val, KindText)>>

newline == <<Token(Null, Null, Null, KindNewline)>>

whitespace(spaces) == <<Token(Null, Null, Spaces(spaces), KindWhitespace)>>

punctuation(val) == <<Token(Null, Null, val, KindPunctuation)>>

keyword(val) == <<Token(Null, Null, val, KindKeyword)>>

typename(val, definition_id, navigate_to_id) ==
    <<Token(definition_id, navigate_to_id, val, KindTypename)>>

member(val, definition_id) == <<Token(definition_id, Null, val, KindMember)>>

path_definition_id(name) == "path:" \o name

model_definition_id(name) == "definition:" \o name

(***************************************************************************)
(* ApiViewTokenEncoder.serialize_operation_parameters                      *)
(***************************************************************************)
\* A "," and a space when tokens were already emitted.
Separator(tokens) ==
    IF Len(tokens) > 0 THEN punctuation(",") \o whitespace(1) ELSE <<>>

\* The members of one group: a "," and a space before every one but the first.
RECURSIVE GroupMembers(_, _)
GroupMembers(parameters, first) ==
    IF Len(parameters) = 0 THEN <<>>
    ELSE (IF first THEN <<>> ELSE punctuation(",") \o whitespace(1))
             \o member(ParameterName(Head(parameters)), Null)
             \o GroupMembers(Tail(parameters), FALSE)

PathGroup(op) ==
    IF Len(op.path_parameters) = 0 THEN <<>>
    ELSE keyword("path") \o whitespace(1) \o GroupMembers(op.path_parameters, TRUE)

BodyTokens(body) ==
    keyword("body") \o whitespace(1)
        \o typename(BodyParameterTypename(body), Null,
                    model_definition_id(BodyParameterTypename(body)))

\* The body group appended without the separator.
BodyGroupUnseparated(tokens, op) ==
    IF Len(op.body_parameter) = 0 THEN tokens
    ELSE tokens \o BodyTokens(op.body_parameter[1])

BodyGroup(tokens, op) ==
    IF Len(op.body_parameter) = 0 THEN tokens
    ELSE tokens \o Separator(tokens) \o BodyTokens(op.body_parameter[1])

\* The query or header group appended to the tokens so far.
NamedGroup(tokens, group, parameters) ==
    IF Len(parameters) = 0 THEN tokens
    ELSE tokens \o Separator(tokens) \o keyword(group) \o whitespace(1)
                \o GroupMembers(parameters, TRUE)

SerializeOperationParameters(op) ==
    NamedGroup(NamedGroup(BodyGroup(PathGroup(op), op), "query", op.query_parameters),
               "header", op.header_parameters)

(***************************************************************************)
(* ApiViewTokenEncoder: operations, paths, definitions, the document       *)
(***************************************************************************)
SerializeOperation(op) ==
    whitespace(2) \o keyword(op.verb) \o whitespace(1)
        \o typename(ResponseTypename(op.return_value),
                    ResponseTypename(op.return_value), Null)
        \o whitespace(1) \o member(op.name, op.name)
        \o punctuation("(") \o SerializeOperationParameters(op) \o punctuation(")")
        \o newline

SerializePath(pathinstance) ==
    text(pathinstance.name, path_definition_id(pathinstance.name)) \o newline
        \o Concat([i \in DOMAIN pathinstance.operations |->
                       SerializeOperation(pathinstance.operations[i])])

\* itemtypename or typename
PropertyTypename(modelproperty) ==
    IF modelproperty.itemtypename # None THEN modelproperty.itemtypename
    ELSE modelproperty.typename

PropertyTypeToken(modelproperty) ==
    IF modelproperty.typetype = "model"
    THEN typename(PropertyTypename(modelproperty), Null,
                  model_definition_id(PropertyTypename(modelproperty)))
    ELSE keyword(PropertyTypename(modelproperty))

\* The type token of an array property left without brackets.
WrappedPropertyTypeTokenBare(modelproperty) == PropertyTypeToken(modelproperty)

WrappedPropertyTypeToken(modelproperty) ==
    IF modelproperty.itemtypename # None
    THEN punctuation("[") \o PropertyTypeToken(modelproperty) \o punctuation("]")
    ELSE PropertyTypeToken(modelproperty)

RECURSIVE RecurseSerializeDefinition(_, _)
RecurseSerializeDefinition(modelproperty, depth) ==
    whitespace(4 * depth) \o WrappedPropertyTypeToken(modelproperty) \o whitespace(1)
        \o member(modelproperty.name, Null) \o newline
        \o Concat([i \in DOMAIN modelproperty.properties |->
                       RecurseSerializeDefinition(modelproperty.properties[i], depth + 1)])

BaseTokens(bases) ==
    IF Len(bases) = 0 THEN <<>>
    ELSE punctuation("(")
             \o Concat([i \in DOMAIN bases |->
                            typename(bases[i].typename, Null,
                                     model_definition_id(bases[i].typename))])
             \o punctuation(")")

SerializeDefinition(resource_or_support, definition) ==
    keyword(resource_or_support) \o whitespace(1)
        \o typename(definition.typename, model_definition_id(definition.typename), Null)
        \o BaseTokens(definition.bases)
        \o newline
        \o Concat([i \in DOMAIN definition.properties |->
                       RecurseSerializeDefinition(definition.properties[i], 1)])

SerializeDefinitions(resource_or_support, definitions) ==
    Concat([i \in DOMAIN definitions |->
                SerializeDefinition(resource_or_support, definitions[i])])

PathTokens(doc) == Concat([i \in DOMAIN doc.paths |-> SerializePath(doc.paths[i])])

\* The two Newlines that follow the path sections when any token was emitted.
SectionSeparator(tokens) == IF Len(tokens) > 0 THEN newline \o newline ELSE <<>>

SerializeFrom(pathtokens, resource, support) ==
    IF resource.raised THEN resource
    ELSE IF support.raised THEN support
    ELSE Ok(pathtokens \o SectionSeparator(pathtokens)
                \o SerializeDefinitions("ResourceModel", resource.value)
                \o SerializeDefinitions("InnerModel", support.value))

\* ApiViewTokenEncoder.serialize
Serialize(doc) ==
    SerializeFrom(PathTokens(doc), ResourceDefinitions(doc), SupportDefinitions(doc))

(***************************************************************************)
(* ApiViewNavigationEncoder.serialize and ApiViewEncoder.default           *)
(***************************************************************************)
Leaf(label, navigation_id) ==
    [Text |-> label, NavigationId |-> navigation_id, ChildItems |-> <<>>,
     Tags |-> [TypeKind |-> "unknown"]]

Group(label, children) ==
    [Text |-> label, NavigationId |-> Null, DefinitionId |-> Null,
     ChildItems |-> children, Tags |-> [TypeKind |-> "unknown"]]

PathLeaves(paths) ==
    [i \in DOMAIN paths |-> Leaf(paths[i].name, path_definition_id(paths[i].name))]

DefinitionLeaves(definitions) ==
    [i \in DOMAIN definitions |->
         Leaf(definitions[i].typename, model_definition_id(definitions[i].typename))]

NavigationFrom(doc, resource, support) ==
    IF resource.raised THEN resource
    ELSE IF support.raised THEN support
    ELSE Ok(<<[Text |-> doc.file_path,
               NavigationId |-> Null,
               ChildItems |-> <<Group("Paths", PathLeaves(doc.paths)),
                                Group("Resources", DefinitionLeaves(resource.value)),
                                Group("Supporting models",
                                      DefinitionLeaves(support.value))>>,
               Tags |-> [TypeKind |-> "assembly"]]>>)

NavigationSerialize(doc) ==
    NavigationFrom(doc, ResourceDefinitions(doc), SupportDefinitions(doc))

EnvelopeFrom(navigation, tokens) ==
    IF navigation.raised THEN navigation
    ELSE IF tokens.raised THEN tokens
    ELSE Ok([Navigation |-> navigation.value, Tokens |-> tokens.value])

\* ApiViewEncoder.default for a Document.
EncoderDefault(doc) == EnvelopeFrom(NavigationSerialize(doc), Serialize(doc))

(***************************************************************************)
(* Inputs of the Operation calls: one operation fragment, in a root        *)
(* document that declares two shared parameters and two definitions.       *)
(***************************************************************************)
MaxParameters == 3

MaxResponses == 2

RefTo(ptr) == <<KV("$ref", ptr)>>

SchemaRefA == RefTo(<<"#", "definitions", "A">>)

SchemaRefB == RefTo(<<".", "#", "definitions", "B">>)

SchemaArrayOfB ==
    <<KV("type", "array"), KV("items", RefTo(<<"#", "definitions", "B">>))>>

SchemaInline == <<KV("type", "object")>>

InlineParameter(location, name) == <<KV("name", name), KV("in", location)>>

BodyParameterFragment(name, schema) ==
    <<KV("name", name), KV("in", "body"), KV("schema", schema)>>

SharedParameters ==
    <<KV("SharedBody", BodyParameterFragment("shared", SchemaRefB)),
      KV("SharedQuery", InlineParameter("query", "top"))>>

OperationRoot ==
    <<KV("paths", <<>>),
      KV("definitions", <<KV("A", <<>>), KV("B", <<>>)>>),
      KV("parameters", SharedParameters)>>

ParameterFragments ==
    { InlineParameter("path", "id"), InlineParameter("path", "subId"),
      InlineParameter("query", "filter"), InlineParameter("header", "etag"),
      BodyParameterFragment("a", SchemaRefA),
      BodyParameterFragment("bs", SchemaArrayOfB),
      BodyParameterFragment("inl", SchemaInline),
      InlineParameter("body", "noschema"),
      RefTo(<<"#", "parameters", "SharedBody">>),
      RefTo(<<"#", "parameters", "SharedQuery">>),
      RefTo(<<"#", "parameters", "SharedQuery">>) \o <<KV("in", "body")>> }

RECURSIVE SeqsUpTo(_, _)
SeqsUpTo(S, n) ==
    IF n = 0 THEN {<<>>}
    ELSE LET shorter == SeqsUpTo(S, n - 1)
         IN  shorter \cup {Append(q, x) : q \in shorter, x \in S}

ResponseKeys == {"default", "199", "200", "299", "300"}

ResponseFragments ==
    { <<>>, <<KV("schema", SchemaRefA)>>, <<KV("schema", SchemaRefB)>>,
      <<KV("schema", SchemaArrayOfB)>>,
      <<KV("x-ms-error-response", "true"), KV("schema", SchemaRefA)>> }

ResponseEntries == {KV(key, f) : key \in ResponseKeys, f \in ResponseFragments}

DistinctKeys(d) == \A i, j \in DOMAIN d : d[i].k = d[j].k => i = j

ResponseMaps == {d \in SeqsUpTo(ResponseEntries, MaxResponses) : DistinctKeys(d)}

OperationFragment(parameters, responses) ==
    <<KV("operationId", "op"), KV("parameters", parameters), KV("responses", responses)>>

OperationArgs ==
    { OperationFragment(ps, <<KV("200", <<KV("schema", SchemaRefA)>>)>>) :
        ps \in SeqsUpTo(ParameterFragments, MaxParameters) }
    \cup { OperationFragment(<<>>, rs) : rs \in ResponseMaps }
    \cup { <<KV("operationId", "bare")>> }

OperationPointer == <<"#", "paths", "/widgets", "get">>

InitOperation ==
    /\ pc = "operation"
    /\ rootjson = OperationRoot
    /\ arg \in OperationArgs
    /\ resolved = None
    /\ operation = None
    /\ paramtokens = None
    /\ document = None
    /\ views = None
    /\ envelope = None

CallOperation ==
    /\ pc = "operation"
    /\ operation' = MakeOperation(rootjson, OperationPointer, "get", arg)
    /\ pc' = IF operation'.raised THEN "operation raised" ELSE "operation built"
    /\ UNCHANGED <<rootjson, arg, resolved, paramtokens, document, views, envelope>>

CallSerializeOperationParameters ==
    /\ pc = "operation built"
    /\ paramtokens' = SerializeOperationParameters(operation.value)
    /\ pc' = "parameters serialized"
    /\ UNCHANGED <<rootjson, arg, resolved, operation, document, views, envelope>>

NextOperation == CallOperation \/ CallSerializeOperationParameters

SpecOperation == InitOperation /\ [][NextOperation]_vars

(***************************************************************************)
(* Inputs of Document(file_path): root documents over two definitions A    *)
(* and B.  Three families: one path whose operations vary, several paths   *)
(* declared in any order, and a definition A whose allOf and properties    *)
(* vary.                                                                   *)
(***************************************************************************)
MaxOperations == 2

MaxPaths == 2

MaxProperties == 1

Responses200(schema) == <<KV("200", <<KV("schema", schema)>>)>>

OpReturnsA == <<KV("operationId", "getA"), KV("responses", Responses200(SchemaRefA))>>

OpReturnsDotSlashB ==
    <<KV("operationId", "getB"), KV("responses", Responses200(SchemaRefB))>>

OpBodyDotHashA ==
    <<KV("operationId", "putA"),
      KV("parameters",
         <<BodyParameterFragment("a", RefTo(<<".#", "definitions", "A">>))>>),
      KV("responses", <<KV("204", <<>>)>>)>>

OpVoid ==
    <<KV("operationId", "drop"),
      KV("responses", <<KV("default", <<KV("schema", SchemaRefA)>>)>>)>>

OpBodyBReturnsArray ==
    <<KV("operationId", "listB"),
      KV("parameters",
         <<InlineParameter("path", "id"),
           BodyParameterFragment("b", RefTo(<<"#", "definitions", "B">>))>>),
      KV("responses", Responses200(SchemaArrayOfB))>>

OpReturnsMissing ==
    <<KV("operationId", "getMissing"),
      KV("responses", Responses200(RefTo(<<"#", "definitions", "Missing">>)))>>

DocumentOperationFragments ==
    {OpReturnsA, OpReturnsDotSlashB, OpBodyDotHashA, OpVoid, OpBodyBReturnsArray,
     OpReturnsMissing}

Verbs == {"get", "post", "delete"}

OperationMaps ==
    {m \in SeqsUpTo({KV(verb, f) : verb \in Verbs, f \in DocumentOperationFragments},
                    MaxOperations) : DistinctKeys(m)}

PathFragments ==
    { <<>>,
      <<KV("get", OpReturnsA)>>,
      <<KV("post", OpBodyDotHashA), KV("get", OpReturnsDotSlashB)>>,
      <<KV("delete", OpVoid)>> }

PathNames == DOMAIN NameRank

PathMaps ==
    {m \in SeqsUpTo({KV(name, f) : name \in PathNames, f \in PathFragments}, MaxPaths) :
        DistinctKeys(m)}

WidgetLike == <<KV("properties", <<KV("id", <<KV("type", "string")>>)>>)>>

PlainDefinitions ==
    { <<>>,
      <<KV("A", WidgetLike)>>,
      <<KV("A", WidgetLike), KV("B", <<>>)>>,
      <<KV("B", <<>>), KV("A", WidgetLike)>> }

PropertyFragments ==
    { <<KV("type", "string")>>,
      <<KV("type", "integer")>>,
      RefTo(<<"#", "definitions", "B">>),
      <<KV("type", "array"), KV("items", RefTo(<<"#", "definitions", "B">>))>>,
      <<KV("type", "array"), KV("items", <<KV("type", "string")>>)>>,
      <<KV("type", "object"),
        KV("properties", <<KV("inner", <<KV("type", "boolean")>>)>>)>> }

PropertyMaps ==
    {m \in SeqsUpTo({KV(name, f) : name \in {"p", "q"}, f \in PropertyFragments},
                    MaxProperties) : DistinctKeys(m)}

AllOfLists ==
    { <<>>,
      <<RefTo(<<"#", "definitions", "B">>)>>,
      <<RefTo(<<"#", "definitions", "B">>),
        <<KV("properties", <<KV("extra", <<KV("type", "string")>>)>>)>>>> }

DefinitionFragments ==
    { (IF Len(allof) = 0 THEN <<>> ELSE <<KV("allOf", allof)>>)
          \o (IF Len(properties) = 0 THEN <<>> ELSE <<KV("properties", properties)>>) :
        allof \in AllOfLists, properties \in PropertyMaps }

RootDocument(paths, definitions) ==
    <<KV("paths", paths), KV("definitions", definitions),
      KV("parameters", SharedParameters)>>

\* An entry whose value is a JSON list or a JSON string.
TypedKV(key, val, type) == [k |-> key, v |-> val, t |-> type]

\* Path fragments that carry a key that is not an HTTP verb.
NonVerbPathFragments ==
    { <<TypedKV("parameters", <<InlineParameter("path", "id")>>, "list"),
        KV("get", OpReturnsA)>>,
      <<KV("get", OpReturnsA), TypedKV("summary", "a summary", "str")>>,
      <<KV("x-ms-note", <<>>), KV("get", OpReturnsA)>> }

Documents ==
    { RootDocument(<<KV("/widgets", m)>>, ds) :
        m \in OperationMaps, ds \in PlainDefinitions }
    \cup { RootDocument(<<KV("/widgets", f)>>, ds) :
              f \in NonVerbPathFragments, ds \in PlainDefinitions }
    \cup { RootDocument(ps, ds) : ps \in PathMaps, ds \in PlainDefinitions }
    \cup { RootDocument(ps, <<KV("A", f), KV("B", <<>>)>>) :
             ps \in {<<>>, <<KV("/pets", <<KV("post", OpBodyBReturnsArray)>>)>>},
             f \in DefinitionFragments }

Init ==
    /\ pc = "document"
    /\ rootjson \in Documents
    /\ arg = None
    /\ resolved = None
    /\ operation = None
    /\ paramtokens = None
    /\ document = None
    /\ views = None
    /\ envelope = None

CallDocument ==
    /\ pc = "document"
    /\ document' = MakeDocument(rootjson)
    /\ pc' = IF document'.raised THEN "document raised" ELSE "document built"
    /\ UNCHANGED <<rootjson, arg, resolved, operation, paramtokens, views, envelope>>

\* A caller reads the reference set and the four classification properties.
ReadViews ==
    /\ pc = "document built"
    /\ views' = ClassificationViews(document.value)
    /\ pc' = "views read"
    /\ UNCHANGED <<rootjson, arg, resolved, operation, paramtokens, document, envelope>>

\* json.dumps(doc, cls=ApiViewEncoder) calls ApiViewEncoder.default(doc).
CallEncoder ==
    /\ pc = "document built"
    /\ envelope' = EncoderDefault(document.value)
    /\ pc' = "encoded"
    /\ UNCHANGED <<rootjson, arg, resolved, operation, paramtokens, document, views>>

Next == CallDocument \/ ReadViews \/ CallEncoder

Spec == Init /\ [][Next]_vars

(***************************************************************************)
(* Inputs of the resolve calls: a parameter fragment that may carry a      *)
(* $ref with sibling keys, and a root document with one shared parameter.  *)
(***************************************************************************)
Opt(key, vals) == {<<>>} \cup {<<KV(key, val)>> : val \in vals}

ResolveRefs ==
    { <<"#", "parameters", "P">>, <<".", "#", "parameters", "P">>,
      <<".#", "parameters", "P">>, <<"#", "parameters", "Missing">>,
      <<"other.json#", "parameters", "P">> }

ResolveArgs ==
    { r \o i \o n : r \in Opt("$ref", ResolveRefs),
                    i \in Opt("in", {"body", "query"}),
                    n \in Opt("name", {"x", "p"}) }

ResolveTargets ==
    { <<KV("in", "query"), KV("name", "p")>>,
      <<KV("name", "p"), KV("type", "string")>>,
      <<KV("in", "body")>>,
      <<>> }

ResolveRoots ==
    { <<KV("paths", <<>>), KV("definitions", <<>>), KV("parameters", <<KV("P", t)>>)>> :
        t \in ResolveTargets }

InitResolve ==
    /\ pc = "resolve"
    /\ rootjson \in ResolveRoots
    /\ arg \in ResolveArgs
    /\ resolved = None
    /\ operation = None
    /\ paramtokens = None
    /\ document = None
    /\ views = None
    /\ envelope = None

CallResolve ==
    /\ pc = "resolve"
    /\ resolved' = Resolve(rootjson, arg)
    /\ pc' = "resolve returned"
    /\ UNCHANGED <<rootjson, arg, operation, paramtokens, document, views, envelope>>

CallResolveFragment ==
    /\ pc = "resolve"
    /\ resolved' = ResolveFragment(rootjson, arg)
    /\ pc' = "resolve_fragment returned"
    /\ UNCHANGED <<rootjson, arg, operation, paramtokens, document, views, envelope>>

NextResolve == CallResolve \/ CallResolveFragment

SpecResolve == InitResolve /\ [][NextResolve]_vars

(***************************************************************************)
(* Inputs of the load_fragment calls: a pointer, against a document whose  *)
(* definitions may hold a key that ends in "#".                            *)
(***************************************************************************)
LoadPointers ==
    { <<"#", "definitions", "A">>, <<".", "#", "definitions", "A">>,
      <<".#", "definitions", "A">>, <<"#", "">>, <<"#", "definitions", "", "A">>,
      <<"#", "definitions", "A", "k">>, <<"#", "definitions", "Missing">>,
      <<"#", "definitions", "A#", "x">>, <<".", "#", "definitions", "A#", "x">>,
      <<"common.json#", "definitions", "X">>, <<"common.json#", "definitions", "A">>,
      <<"", "specs", "common.json#", "definitions", "X">>,
      <<"api.json#", "definitions", "A">>,
      <<"other.json#", "definitions", "X">>,
      <<"", "elsewhere", "other.json#", "definitions", "X">>,
      <<"definitions", "A">> }

LoadDefinitions ==
    { <<>>,
      <<KV("A", <<KV("k", <<KV("type", "string")>>)>>)>>,
      <<KV("A#", <<KV("x", <<KV("type", "string")>>)>>)>>,
      <<KV("A", <<KV("k", <<KV("type", "string")>>)>>),
        KV("A#", <<KV("x", <<KV("type", "string")>>)>>)>> }

LoadRoots == { <<KV("paths", <<>>), KV("definitions", ds)>> : ds \in LoadDefinitions }

InitLoad ==
    /\ pc = "load_fragment"
    /\ rootjson \in LoadRoots
    /\ arg \in LoadPointers
    /\ resolved = None
    /\ operation = None
    /\ paramtokens = None
    /\ document = None
    /\ views = None
    /\ envelope = None

CallLoadFragment ==
    /\ pc = "load_fragment"
    /\ resolved' = LoadFragment(rootjson, arg)
    /\ pc' = "load_fragment returned"
    /\ UNCHANGED <<rootjson, arg, operation, paramtokens, document, views, envelope>>

NextLoad == CallLoadFragment

SpecLoad == InitLoad /\ [][NextLoad]_vars

(***************************************************************************)
(* C6: resolve(fragment) returns a copy of the fragment without "$ref" in  *)
(* which every key present both in the $ref target and beside "$ref" in    *)
(* the caller's fragment has the caller's value; keys present on one side  *)
(* only are kept; the input fragment is not modified.                      *)
(***************************************************************************)
TargetOf(root, fragment) == LoadFragment(root, Get(fragment, "$ref"))

C6_CallerKeysTakePrecedence ==
    (pc = "resolve returned" /\ ~resolved.raised) =>
        /\ ~Has(resolved.value, "$ref")
        /\ \A key \in Keys(arg) \ {"$ref"} :
              Has(resolved.value, key) /\ Get(resolved.value, key) = Get(arg, key)
        /\ (Has(arg, "$ref") /\ ~TargetOf(rootjson, arg).raised) =>
              \A key \in Keys(TargetOf(rootjson, arg).value) \ Keys(arg) :
                  /\ Has(resolved.value, key)
                  /\ Get(resolved.value, key) = Get(TargetOf(rootjson, arg).value, key)

(***************************************************************************)
(* C4: return_value is the first-declared response whose key is not        *)
(* "default", that is not marked x-ms-error-response and whose status code *)
(* is in [200,300); its typename is the trailing segment of the schema's   *)
(* $ref when the schema is a direct $ref.  When there is no such response  *)
(* return_value.typename is "void".                                        *)
(***************************************************************************)
OperationDone == pc \in {"operation built", "parameters serialized"}

DeclaredResponses == GetOr(arg, "responses", <<>>)

QualifiesAsReturnValue(entry) ==
    /\ entry.k # "default"
    /\ ~Has(entry.v, "x-ms-error-response")
    /\ StatusCodes[entry.k] >= 200
    /\ StatusCodes[entry.k] < 300

FirstQualifying ==
    CHOOSE i \in DOMAIN DeclaredResponses :
        /\ QualifiesAsReturnValue(DeclaredResponses[i])
        /\ \A j \in 1..(i - 1) : ~QualifiesAsReturnValue(DeclaredResponses[j])

HasDirectRef(fragment) ==
    Has(fragment, "schema") /\ Has(Get(fragment, "schema"), "$ref")

C4_ReturnValueIsFirstSuccess ==
    OperationDone =>
        IF \E i \in DOMAIN DeclaredResponses : QualifiesAsReturnValue(DeclaredResponses[i])
        THEN /\ operation.value.return_value.class = "Response"
             /\ operation.value.return_value.jsonpointer
                    = Append(OperationPointer, DeclaredResponses[FirstQualifying].k)
             /\ operation.value.return_value.raw_jsonfragment
                    = DeclaredResponses[FirstQualifying].v
             /\ HasDirectRef(DeclaredResponses[FirstQualifying].v) =>
                    ResponseTypename(operation.value.return_value)
                        = Last(Get(Get(DeclaredResponses[FirstQualifying].v, "schema"),
                                   "$ref"))
        ELSE /\ operation.value.return_value = VoidResponse
             /\ ResponseTypename(operation.value.return_value) = "void"

\* A built operation whose first declared response does not qualify and whose
\* second one does, with a direct $ref schema.
C4_Witness ==
    /\ pc = "operation built"
    /\ Len(DeclaredResponses) = 2
    /\ ~QualifiesAsReturnValue(DeclaredResponses[1])
    /\ QualifiesAsReturnValue(DeclaredResponses[2])
    /\ HasDirectRef(DeclaredResponses[2].v)
    /\ ResponseTypename(operation.value.return_value) = "B"

(***************************************************************************)
(* C5: if no parameter resolves to in == "body", body_parameter is absent; *)
(* otherwise body_parameter is built from the first parameter, in          *)
(* declaration order, that resolves to in == "body", construction does not *)
(* fail because there are several, and body_parameter.typename is the bare *)
(* name of the schema's $ref, or "[T]" when the schema is an array whose   *)
(* items are a $ref to T.                                                  *)
(***************************************************************************)
DeclaredParameters == GetOr(arg, "parameters", <<>>)

ResolvesToBody(fragment) ==
    GetOr(ResolveFragment(rootjson, fragment).value, "in", "") = "body"

BodyPositions == {i \in DOMAIN DeclaredParameters : ResolvesToBody(DeclaredParameters[i])}

FirstBodyPosition == CHOOSE i \in BodyPositions : \A j \in BodyPositions : i <= j

FirstBodySchema ==
    Get(Resolve(rootjson, DeclaredParameters[FirstBodyPosition]).value, "schema")

ExpectedBodyTypename(schema) ==
    IF Has(schema, "$ref") THEN Last(Get(schema, "$ref"))
    ELSE "[" \o Last(Get(Get(schema, "items"), "$ref")) \o "]"

IsRefOrArrayOfRef(schema) ==
    \/ Has(schema, "$ref")
    \/ /\ GetOr(schema, "type", "") = "array"
       /\ Has(schema, "items")
       /\ Has(Get(schema, "items"), "$ref")

C5_BodyParameterIsFirstBody ==
    /\ OperationDone =>
          IF BodyPositions = {}
          THEN Len(operation.value.body_parameter) = 0
          ELSE /\ Len(operation.value.body_parameter) = 1
               /\ operation.value.body_parameter[1].raw_jsonfragment
                      = DeclaredParameters[FirstBodyPosition]
               /\ IsRefOrArrayOfRef(FirstBodySchema) =>
                      BodyParameterTypename(operation.value.body_parameter[1])
                          = ExpectedBodyTypename(FirstBodySchema)
    /\ pc = "operation raised" =>
          /\ BodyPositions # {}
          /\ ~Has(Resolve(rootjson, DeclaredParameters[FirstBodyPosition]).value,
                  "schema")

\* A built operation with several body parameters whose first one is an array of $ref.
C5_Witness ==
    /\ pc = "operation built"
    /\ Cardinality(BodyPositions) >= 2
    /\ FirstBodyPosition > 1
    /\ BodyParameterTypename(operation.value.body_parameter[1]) = "[B]"

(***************************************************************************)
(* C8: the parameter tokens render the non-empty groups in the order path, *)
(* body, query, header; each group starts with its keyword once, followed  *)
(* by a space; "," and one space separate two consecutive non-empty groups *)
(* and two successive parameters of a group, with no leading or trailing   *)
(* separator.  Path parameters id, subId, no body and a query parameter    *)
(* filter render as "path id, subId, query filter".                        *)
(***************************************************************************)
RECURSIVE Render(_)
Render(tokens) ==
    IF Len(tokens) = 0 THEN "" ELSE Head(tokens).Value \o Render(Tail(tokens))

RECURSIVE JoinComma(_)
JoinComma(texts) ==
    IF Len(texts) = 0 THEN ""
    ELSE IF Len(texts) = 1 THEN texts[1]
    ELSE texts[1] \o ", " \o JoinComma(Tail(texts))

ParameterNames(parameters) == [i \in DOMAIN parameters |-> ParameterName(parameters[i])]

NameGroupText(group, parameters) ==
    IF Len(parameters) = 0 THEN <<>>
    ELSE <<group \o " " \o JoinComma(ParameterNames(parameters))>>

BodyGroupText(body) ==
    IF Len(body) = 0 THEN <<>> ELSE <<"body " \o BodyParameterTypename(body[1])>>

ExpectedParameterText(op) ==
    JoinComma(NameGroupText("path", op.path_parameters)
                  \o BodyGroupText(op.body_parameter)
                  \o NameGroupText("query", op.query_parameters)
                  \o NameGroupText("header", op.header_parameters))

KeywordPositions(tokens, group) ==
    {i \in DOMAIN tokens : tokens[i].Kind = KindKeyword /\ tokens[i].Value = group}

IsComma(token) == token.Kind = KindPunctuation /\ token.Value = ","

IsName(token) == token.Kind \in {KindMember, KindTypename}

C8_ParameterGroupsInOrder ==
    pc = "parameters serialized" =>
        /\ Render(paramtokens) = ExpectedParameterText(operation.value)
        /\ Cardinality(KeywordPositions(paramtokens, "path"))
               = IF Len(operation.value.path_parameters) > 0 THEN 1 ELSE 0
        /\ Cardinality(KeywordPositions(paramtokens, "body"))
               = Len(operation.value.body_parameter)
        /\ Cardinality(KeywordPositions(paramtokens, "query"))
               = IF Len(operation.value.query_parameters) > 0 THEN 1 ELSE 0
        /\ Cardinality(KeywordPositions(paramtokens, "header"))
               = IF Len(operation.value.header_parameters) > 0 THEN 1 ELSE 0
        /\ \A i \in DOMAIN paramtokens :
              /\ paramtokens[i].Kind = KindKeyword =>
                    /\ i < Len(paramtokens)
                    /\ paramtokens[i + 1] = whitespace(1)[1]
              /\ IsComma(paramtokens[i]) =>
                    /\ i > 1 /\ IsName(paramtokens[i - 1])
                    /\ i + 2 <= Len(paramtokens)
                    /\ paramtokens[i + 1] = whitespace(1)[1]
                    /\ paramtokens[i + 2].Kind \in {KindKeyword, KindMember}
        /\ Len(paramtokens) > 0 =>
              /\ paramtokens[1].Kind = KindKeyword
              /\ IsName(paramtokens[Len(paramtokens)])
        /\ ( /\ ParameterNames(operation.value.path_parameters) = <<"id", "subId">>
             /\ Len(operation.value.body_parameter) = 0
             /\ ParameterNames(operation.value.query_parameters) = <<"filter">>
             /\ Len(operation.value.header_parameters) = 0 )
           => Render(paramtokens) = "path id, subId, query filter"

\* The scenario: two path parameters id, subId, no body, one query parameter filter.
C8_Witness ==
    /\ pc = "parameters serialized"
    /\ DeclaredParameters
           = <<InlineParameter("path", "id"), InlineParameter("path", "subId"),
               InlineParameter("query", "filter")>>
    /\ Render(paramtokens) = "path id, subId, query filter"

(***************************************************************************)
(* C3: the (direction, pointer) reference set can be computed for every    *)
(* successfully built Document without error, and for an operation whose   *)
(* return value is the void sentinel or a successful response without a    *)
(* schema the set contains ("out", the operation's own pointer).           *)
(***************************************************************************)
HasNoReturnSchema(op) ==
    \/ op.return_value.class = "VoidResponse"
    \/ Len(op.return_value.schema) = 0

C3_ReferenceSetComputable ==
    pc = "views read" =>
        /\ ~views.raised
        /\ \A i \in DOMAIN document.value.paths :
              \A j \in DOMAIN document.value.paths[i].operations :
                 HasNoReturnSchema(document.value.paths[i].operations[j]) =>
                    Reference("out", document.value.paths[i].operations[j].jsonpointer)
                        \in views.value.references

(***************************************************************************)
(* C1: for any built Document, every Definition of Document.definitions    *)
(* appears in exactly one of resourcedefinitions and supportdefinitions,    *)
(* and the type names of the two together are the type names of all        *)
(* definitions.                                                            *)
(***************************************************************************)
TypeNames(definitions) == {definitions[i].typename : i \in DOMAIN definitions}

Occurrences(definitions, name) ==
    Cardinality({i \in DOMAIN definitions : definitions[i].typename = name})

Partitioned(doc, v) ==
    /\ \A name \in TypeNames(doc.definitions) :
          Occurrences(v.resourcedefinitions, name)
              + Occurrences(v.supportdefinitions, name) = 1
    /\ TypeNames(v.resourcedefinitions) \cup TypeNames(v.supportdefinitions)
           = TypeNames(doc.definitions)

C1_EveryDefinitionInExactlyOneView ==
    pc = "views read" => (~views.raised /\ Partitioned(document.value, views.value))

(***************************************************************************)
(* C2: a Definition D is in resourcedefinitions exactly when some          *)
(* operation's body-parameter schema (in) or kept successful-response      *)
(* schema (out) is a $ref to D in any same-document form (#/definitions/D, *)
(* ./#/definitions/D, .#/definitions/D); otherwise D is in                 *)
(* supportdefinitions; inputdefinitions and outputdefinitions are the      *)
(* subsets of resourcedefinitions for direction in and out.                *)
(***************************************************************************)
SameDocumentRefs(name) ==
    { <<"#", "definitions", name>>, <<".", "#", "definitions", name>>,
      <<".#", "definitions", name>> }

RefersTo(schema, name) ==
    /\ Has(schema.raw_jsonfragment, "$ref")
    /\ Get(schema.raw_jsonfragment, "$ref") \in SameDocumentRefs(name)

InRefersTo(op, name) ==
    /\ Len(op.body_parameter) > 0
    /\ RefersTo(op.body_parameter[1].schema, name)

OutRefersTo(op, name) ==
    /\ op.return_value.class = "Response"
    /\ Len(op.return_value.schema) > 0
    /\ RefersTo(op.return_value.schema[1], name)

ReferencedIn(doc, name) ==
    \E i \in DOMAIN doc.paths : \E j \in DOMAIN doc.paths[i].operations :
        InRefersTo(doc.paths[i].operations[j], name)

ReferencedOut(doc, name) ==
    \E i \in DOMAIN doc.paths : \E j \in DOMAIN doc.paths[i].operations :
        OutRefersTo(doc.paths[i].operations[j], name)

ClassifiedByReference(doc, v) ==
    \A name \in TypeNames(doc.definitions) :
        /\ name \in TypeNames(v.resourcedefinitions)
              <=> (ReferencedIn(doc, name) \/ ReferencedOut(doc, name))
        /\ name \in TypeNames(v.supportdefinitions)
              <=> ~(ReferencedIn(doc, name) \/ ReferencedOut(doc, name))
        /\ name \in TypeNames(v.inputdefinitions) <=> ReferencedIn(doc, name)
        /\ name \in TypeNames(v.outputdefinitions) <=> ReferencedOut(doc, name)

C2_ResourceIffReferenced ==
    (pc = "views read" /\ ~views.raised) =>
        ClassifiedByReference(document.value, views.value)

(***************************************************************************)
(* C7: the token stream of serialize(document) holds the path sections in  *)
(* ascending path-name order (the path's Text token, then its operations   *)
(* in declaration order), then exactly two Newline tokens if and only if   *)
(* a path token was emitted, then one section per resource definition in   *)
(* declaration order, then one section per support definition in           *)
(* declaration order.  For a document without paths and definitions the    *)
(* stream is empty and the navigation tree is one root with three groups   *)
(* whose ChildItems are empty.                                             *)
(***************************************************************************)
Encoded == pc = "encoded" /\ ~envelope.raised

DeclaredPaths == Get(rootjson, "paths")

DeclaredDefinitions == Get(rootjson, "definitions")

\* The names of S in ascending order.
Ascending(S) ==
    CHOOSE s \in [1..Cardinality(S) -> S] :
        \A i, j \in 1..Cardinality(S) : i < j => NameRank[s[i]] < NameRank[s[j]]

IsDefinitionKeyword(token) ==
    token.Kind = KindKeyword /\ token.Value \in {"ResourceModel", "InnerModel"}

IsOperationName(token) == token.Kind = KindMember /\ token.DefinitionId # Null

IsHead(token) ==
    token.Kind = KindText \/ IsOperationName(token) \/ IsDefinitionKeyword(token)

HeadAt(tokens, i) ==
    IF tokens[i].Kind = KindText THEN <<"path", tokens[i].Value>>
    ELSE IF IsOperationName(tokens[i]) THEN <<"operation", tokens[i].Value>>
    ELSE <<tokens[i].Value, tokens[i + 2].Value>>

\* The section heads of a token stream, in stream order.
Heads(tokens) ==
    LET positions == SelectSeq([i \in 1..Len(tokens) |-> i],
                               LAMBDA i : IsHead(tokens[i]))
    IN  [k \in DOMAIN positions |-> HeadAt(tokens, positions[k])]

ExpectedPathHeads(name) ==
    LET declared == Get(DeclaredPaths, name)
    IN  <<<<"path", name>>>>
            \o [j \in DOMAIN declared |->
                   <<"operation", Get(declared[j].v, "operationId")>>]

\* The declared definition names that are type names of the given view, in
\* declaration order.
DeclaredNamesIn(definitions) ==
    SelectSeq([i \in DOMAIN DeclaredDefinitions |-> DeclaredDefinitions[i].k],
              LAMBDA name : name \in TypeNames(definitions))

ExpectedDefinitionHeads(word, definitions) ==
    [i \in DOMAIN DeclaredNamesIn(definitions) |->
         <<word, DeclaredNamesIn(definitions)[i]>>]

ExpectedHeads ==
    LET names == Ascending(Keys(DeclaredPaths))
    IN  Concat([k \in DOMAIN names |-> ExpectedPathHeads(names[k])])
            \o ExpectedDefinitionHeads("ResourceModel",
                                       ResourceDefinitions(document.value).value)
            \o ExpectedDefinitionHeads("InnerModel",
                                       SupportDefinitions(document.value).value)

\* The positions where a Newline token directly follows a Newline token.
BlankLines(tokens) ==
    {i \in 2..Len(tokens) :
        tokens[i].Kind = KindNewline /\ tokens[i - 1].Kind = KindNewline}

\* One past the last token of the path sections.
EndOfPaths(tokens) ==
    IF \E i \in DOMAIN tokens : IsDefinitionKeyword(tokens[i])
    THEN (CHOOSE i \in DOMAIN tokens :
              /\ IsDefinitionKeyword(tokens[i])
              /\ \A j \in 1..(i - 1) : ~IsDefinitionKeyword(tokens[j])) - 1
    ELSE Len(tokens)

EmptyTree ==
    <<[Text |-> FilePath, NavigationId |-> Null,
       ChildItems |-> <<Group("Paths", <<>>), Group("Resources", <<>>),
                        Group("Supporting models", <<>>)>>,
       Tags |-> [TypeKind |-> "assembly"]]>>

C7_TokenStreamOrder ==
    Encoded =>
        /\ Heads(envelope.value.Tokens) = ExpectedHeads
        /\ BlankLines(envelope.value.Tokens)
               = IF Len(DeclaredPaths) > 0
                 THEN {EndOfPaths(envelope.value.Tokens) - 1,
                       EndOfPaths(envelope.value.Tokens)}
                 ELSE {}
        /\ (Len(DeclaredPaths) = 0 /\ Len(DeclaredDefinitions) = 0) =>
              /\ envelope.value.Tokens = <<>>
              /\ envelope.value.Navigation = EmptyTree

\* Two paths declared in descending name order, an operation, and both a
\* resource and a support definition.
C7_Witness ==
    /\ Encoded
    /\ Len(DeclaredPaths) = 2
    /\ DeclaredPaths[1].k = "/widgets"
    /\ DeclaredPaths[2].k = "/pets"
    /\ \E i \in DOMAIN envelope.value.Tokens : IsOperationName(envelope.value.Tokens[i])
    /\ \E i \in DOMAIN envelope.value.Tokens :
          envelope.value.Tokens[i] = keyword("ResourceModel")[1]
    /\ \E i \in DOMAIN envelope.value.Tokens :
          envelope.value.Tokens[i] = keyword("InnerModel")[1]
    /\ Cardinality(BlankLines(envelope.value.Tokens)) = 2

(***************************************************************************)
(* C9: for any Document, every leaf of the navigation tree has a           *)
(* NavigationId equal to the DefinitionId of a token of the token stream   *)
(* produced for the same Document ("path:" + name for a Path under Paths,  *)
(* "definition:" + typename for a Definition under Resources or            *)
(* Supporting models), and every Path and every Definition has exactly     *)
(* one leaf.                                                               *)
(***************************************************************************)
DefinitionIds(tokens) == {tokens[i].DefinitionId : i \in DOMAIN tokens} \ {Null}

GroupLeaves(tree, n) == tree[1].ChildItems[n].ChildItems

LeavesWith(leaves, label, navigation_id) ==
    {i \in DOMAIN leaves :
        leaves[i].Text = label /\ leaves[i].NavigationId = navigation_id}

LeavesMatchAnchors(tree, tokens) ==
    /\ \A n \in 1..3 : \A i \in DOMAIN GroupLeaves(tree, n) :
          /\ GroupLeaves(tree, n)[i].NavigationId \in DefinitionIds(tokens)
          /\ GroupLeaves(tree, n)[i].NavigationId
                 = (IF n = 1 THEN "path:" ELSE "definition:")
                       \o GroupLeaves(tree, n)[i].Text
    /\ Len(GroupLeaves(tree, 1)) = Len(DeclaredPaths)
    /\ \A name \in Keys(DeclaredPaths) :
          Cardinality(LeavesWith(GroupLeaves(tree, 1), name, "path:" \o name)) = 1
    /\ Len(GroupLeaves(tree, 2)) + Len(GroupLeaves(tree, 3)) = Len(DeclaredDefinitions)
    /\ \A name \in Keys(DeclaredDefinitions) :
          Cardinality(LeavesWith(GroupLeaves(tree, 2), name, "definition:" \o name))
              + Cardinality(LeavesWith(GroupLeaves(tree, 3), name,
                                       "definition:" \o name)) = 1

C9_NavigationLeavesMatchAnchors ==
    pc = "encoded" =>
        /\ ~envelope.raised
        /\ LeavesMatchAnchors(envelope.value.Navigation, envelope.value.Tokens)

(***************************************************************************)
(* C10: in the token stream of any Document, every token whose             *)
(* NavigateToId is non-null names an anchor declared in the same stream:   *)
(* some token of the stream has a DefinitionId equal to that NavigateToId. *)
(***************************************************************************)
Dangling(tokens) ==
    {tokens[i].NavigateToId : i \in DOMAIN tokens} \ ({Null} \cup DefinitionIds(tokens))

C10_NavigateToIdNamesAnchor ==
    Encoded => Dangling(envelope.value.Tokens) = {}

(***************************************************************************)
(* C11: for a Definition with an allOf list, bases holds exactly one base  *)
(* per allOf entry that is a $ref, in list order and named by the $ref's   *)
(* trailing segment, and none for an inline entry; every property declared *)
(* by an inline allOf entry appears in the Definition's properties         *)
(* together with the properties the Definition declares itself.            *)
(***************************************************************************)
DeclaredAllOf(fragment) == GetOr(fragment, "allOf", <<>>)

RefEntries(allof) == SelectSeq(allof, LAMBDA entry : Has(entry, "$ref"))

InlineEntries(allof) == SelectSeq(allof, LAMBDA entry : ~Has(entry, "$ref"))

ExpectedBaseNames(allof) ==
    [i \in DOMAIN RefEntries(allof) |-> Last(Get(RefEntries(allof)[i], "$ref"))]

PropertyNamesOf(fragment) == Keys(GetOr(fragment, "properties", <<>>))

InlinePropertyNames(allof) ==
    UNION {PropertyNamesOf(InlineEntries(allof)[i]) : i \in DOMAIN InlineEntries(allof)}

BuiltPropertyNames(definition) ==
    {definition.properties[i].name : i \in DOMAIN definition.properties}

BasesAreRefEntries(definition, fragment) ==
    [i \in DOMAIN definition.bases |-> definition.bases[i].typename]
        = ExpectedBaseNames(DeclaredAllOf(fragment))

InlineAndOwnPropertiesKept(definition, fragment) ==
    InlinePropertyNames(DeclaredAllOf(fragment)) \cup PropertyNamesOf(fragment)
        \subseteq BuiltPropertyNames(definition)

C11_AllOfBasesAndInlineProperties ==
    pc = "document built" =>
        \A i \in DOMAIN document.value.definitions :
            /\ BasesAreRefEntries(document.value.definitions[i], DeclaredDefinitions[i].v)
            /\ InlineAndOwnPropertiesKept(document.value.definitions[i],
                                          DeclaredDefinitions[i].v)

(***************************************************************************)
(* C12: each of the three ambiguities (more than one body parameter on an  *)
(* operation, more than one distinct non-void successful response type on  *)
(* an operation, an inline entry in a definition's allOf) produces a       *)
(* warning, and construction continues: the operation or definition is     *)
(* still built and appears in the model and in the output.                 *)
(***************************************************************************)
TypeWarnings ==
    {"Multiple return types for operation", "Multiple exception types for operation"}

WarningsOf(built) == {built.warnings[i] : i \in DOMAIN built.warnings}

DeclaredTypename(fragment) ==
    IF Has(fragment, "schema") THEN ExpectedBodyTypename(Get(fragment, "schema"))
    ELSE "void"

DeclaredSuccessTypes ==
    {DeclaredTypename(DeclaredResponses[i].v) :
        i \in {j \in DOMAIN DeclaredResponses :
                  QualifiesAsReturnValue(DeclaredResponses[j])}} \ {"void"}

SeveralBodyParameters == Cardinality(BodyPositions) > 1

SeveralSuccessTypes == Cardinality(DeclaredSuccessTypes) > 1

HasInlineAllOf(fragment) == Len(InlineEntries(DeclaredAllOf(fragment))) > 0

OperationAmbiguitiesWarn ==
    /\ SeveralBodyParameters => WarningsOf(operation.value) \ TypeWarnings # {}
    /\ SeveralSuccessTypes =>
          "Multiple return types for operation" \in WarningsOf(operation.value)

InlineAllOfWarns ==
    \A i \in DOMAIN DeclaredDefinitions :
        HasInlineAllOf(DeclaredDefinitions[i].v) =>
            /\ document.value.definitions[i].typename = DeclaredDefinitions[i].k
            /\ WarningsOf(document.value.definitions[i]) # {}

InlineAllOfSerialized ==
    \A i \in DOMAIN DeclaredDefinitions :
        HasInlineAllOf(DeclaredDefinitions[i].v) =>
            model_definition_id(DeclaredDefinitions[i].k)
                \in DefinitionIds(envelope.value.Tokens)

C12_AmbiguitiesWarnAndContinue ==
    /\ pc = "operation built" => OperationAmbiguitiesWarn
    /\ pc = "operation raised" =>
          ~Has(Resolve(rootjson, DeclaredParameters[FirstBodyPosition]).value, "schema")
    /\ pc = "document raised" => \A i \in DOMAIN DeclaredDefinitions :
                                     ~HasInlineAllOf(DeclaredDefinitions[i].v)
    /\ pc = "document built" => InlineAllOfWarns
    /\ Encoded => InlineAllOfSerialized

(***************************************************************************)
(* C13: for every ModelProperty at nesting depth d (1 at top level) the    *)
(* serializer emits Whitespace of 4*d spaces, the type token, one space,   *)
(* the property name as a Member token, a Newline, and then the lines of   *)
(* its nested properties depth-first.  typetype is "scalar" exactly when   *)
(* typename is one of string, boolean, number, object, else "model"; the   *)
(* type token is a Typename with NavigateToId "definition:" + type name    *)
(* when typetype is "model" and a Keyword without NavigateToId otherwise;  *)
(* for an array property it shows the item type between "[" and "]".       *)
(***************************************************************************)
ShownTypename(property) ==
    IF property.typename = "array" THEN property.itemtypename ELSE property.typename

ExpectedTypeToken(property) ==
    IF property.typetype = "model"
    THEN [DefinitionId |-> Null,
          NavigateToId |-> "definition:" \o ShownTypename(property),
          Value |-> ShownTypename(property), Kind |-> KindTypename]
    ELSE [DefinitionId |-> Null, NavigateToId |-> Null,
          Value |-> ShownTypename(property), Kind |-> KindKeyword]

Plain(val, kind) ==
    [DefinitionId |-> Null, NavigateToId |-> Null, Value |-> val, Kind |-> kind]

ExpectedTypeTokens(property) ==
    IF property.typename = "array"
    THEN <<Plain("[", KindPunctuation), ExpectedTypeToken(property),
           Plain("]", KindPunctuation)>>
    ELSE <<ExpectedTypeToken(property)>>

RECURSIVE ExpectedPropertyLines(_, _)
ExpectedPropertyLines(properties, d) ==
    IF Len(properties) = 0 THEN <<>>
    ELSE <<Plain(Spaces(4 * d), KindWhitespace)>>
             \o ExpectedTypeTokens(Head(properties))
             \o <<Plain(" ", KindWhitespace),
                  Plain(Head(properties).name, KindMember),
                  Plain(Null, KindNewline)>>
             \o ExpectedPropertyLines(Head(properties).properties, d + 1)
             \o ExpectedPropertyLines(Tail(properties), d)

RECURSIVE TypeTypesAreRight(_)
TypeTypesAreRight(properties) ==
    \A i \in DOMAIN properties :
        /\ properties[i].typetype \in {"scalar", "model"}
        /\ properties[i].typetype = "scalar"
              <=> properties[i].typename \in {"string", "boolean", "number", "object"}
        /\ TypeTypesAreRight(properties[i].properties)

DefinitionKeywordPositions(tokens) ==
    {i \in DOMAIN tokens : IsDefinitionKeyword(tokens[i])}

\* The last token of the definition section that starts at position p.
SectionEnd(tokens, p) ==
    IF \E q \in DefinitionKeywordPositions(tokens) : q > p
    THEN (CHOOSE q \in DefinitionKeywordPositions(tokens) :
              q > p /\ \A r \in DefinitionKeywordPositions(tokens) : r > p => q <= r) - 1
    ELSE Len(tokens)

\* The first Newline of the section that starts at position p: the end of its head line.
HeadLineEnd(tokens, p) ==
    CHOOSE q \in p..Len(tokens) :
        tokens[q].Kind = KindNewline /\ \A r \in p..(q - 1) : tokens[r].Kind # KindNewline

PropertyLinesAt(tokens, p) ==
    SubSeq(tokens, HeadLineEnd(tokens, p) + 1, SectionEnd(tokens, p))

DefinitionNamed(doc, name) ==
    doc.definitions[CHOOSE i \in DOMAIN doc.definitions :
                        doc.definitions[i].typename = name]

HttpVerbs == {"get", "put", "post", "delete", "options", "head", "patch"}

VerbEntries(fragment) == SelectSeq(fragment, LAMBDA entry : entry.k \in HttpVerbs)

ExpectedVerbs(fragment) ==
    [i \in DOMAIN VerbEntries(fragment) |-> Upper(VerbEntries(fragment)[i].k)]

BuiltVerbs(path) == [i \in DOMAIN path.operations |-> path.operations[i].verb]

OperationsAreVerbKeys ==
    \A i \in DOMAIN document.value.paths :
        BuiltVerbs(document.value.paths[i])
            = ExpectedVerbs(Get(DeclaredPaths, document.value.paths[i].name))

C14_OperationsOnlyForVerbKeys ==
    /\ pc # "document raised"
    /\ pc = "document built" => OperationsAreVerbKeys

(***************************************************************************)
(* C15: load_fragment splits the pointer on its first "#/" into a file     *)
(* part and a path part (a later "#/" stays inside the path part); a file  *)
(* part of "", "." or "./" selects the Document's own file, a relative one *)
(* is resolved against the directory of the Document's file, an absolute   *)
(* one is used as is; the result is the value reached by indexing through  *)
(* the non-empty path segments in order, and a segment absent from the     *)
(* current fragment makes the load fail instead of returning a value.      *)
(***************************************************************************)
FirstHash(ptr) == CHOOSE i \in HashPositions(ptr) : \A j \in HashPositions(ptr) : i <= j

\* The file the file part selects.
SelectedFile(filepart) ==
    IF filepart \in {"", ".", "./"} THEN "/specs/api.json"
    ELSE IF IsAbs(filepart) THEN filepart
    ELSE "/specs/" \o filepart

\* The value reached from node through the segments: <<value>>, or <<>> when a
\* segment is absent.
RECURSIVE Reached(_, _)
Reached(node, segments) ==
    IF Len(segments) = 0 THEN <<node>>
    ELSE IF Head(segments) = "" THEN Reached(node, Tail(segments))
    ELSE IF \E i \in DOMAIN node : node[i].k = Head(segments)
         THEN Reached(Get(node, Head(segments)), Tail(segments))
         ELSE <<>>

ExpectedLoad(root, ptr) ==
    LET file == SelectedFile(FilePathJsonPointer(ptr, FirstHash(ptr)))
        segments == SubSeq(ptr, FirstHash(ptr) + 1, Len(ptr))
    IN  IF file = "/specs/api.json" THEN Reached(root, segments)
        ELSE IF file = "/specs/common.json" THEN Reached(CommonDocument, segments)
        ELSE <<>>

C15_LoadFragmentSplitsOnFirstHash ==
    (pc = "load_fragment returned" /\ HashPositions(arg) # {}) =>
        IF Len(ExpectedLoad(rootjson, arg)) = 0 THEN resolved.raised
        ELSE /\ ~resolved.raised
             /\ resolved.value = ExpectedLoad(rootjson, arg)[1]

====
